---- MODULE Spec2Model ----
\* The authenticated request pipeline of the bookmark service:
\*   errorMiddleware -> headersMiddleware -> authMiddleware (paths under /api/)
\*   -> validateBody -> route handler -> BookmarkService -> store
\* One request is in flight at a time; the store persists across requests.
\* Spec is the whole pipeline. ServiceSpec drives the handlers and
\* BookmarkService with requests that have passed authentication and
\* validation, ListSpec follows the cursors of GET /api/bookmarks over a
\* filled table, ValidationSpec applies validateBody at the schemas' bounds.
\* Strings whose characters the code inspects (request paths and the
\* Authorization header) are sequences of one-character strings.
\* "await next()" is the call of the rest of the chain: a value thrown
\* downstream propagates outwards to the nearest enclosing try/catch of
\* the stages in src/middleware.
EXTENDS Integers, Sequences, FiniteSets, TLC

VARIABLES
  store,      \* the bookmarks table: store[i] is the row whose id is i
  clock,      \* the store's NOW()
  pc,         \* position of the request in flight in the pipeline
  req,        \* the request in flight: method, path, Authorization header
  ctx,        \* Hono context variables: userId, validatedBody
  res,        \* c.res: status, body, response headers
  thrown,     \* the value being thrown up the chain, or NoThrow
  inAuthTry,  \* next() was called inside authMiddleware's try block
  log,        \* audit events emitted for the request in flight
  hist,       \* what happened to the request in flight (observation only)
  walk,       \* a client following list cursors: the pages it has received
  peer        \* a second update request in flight at the same time

vars ==
  <<store, clock, pc, req, ctx, res, thrown, inAuthTry, log, hist, walk,
    peer>>

----------------------------------------------------------------------------
(* Bounds *)

MaxIds == 1      \* rows the store may hold
MaxRows == 1     \* rows the store may hold when the service is driven directly
MaxListed == 3   \* rows of the table a client pages through
MaxStamp == 2    \* creation timestamps of those rows

----------------------------------------------------------------------------
(* Strings as character sequences *)

\* String.prototype.startsWith
StartsWith(s, p) == Len(s) >= Len(p) /\ SubSeq(s, 1, Len(p)) = p

\* String.prototype.slice(n)
Slice(s, n) == SubSeq(s, n + 1, Len(s))

\* HTTP whitespace is stripped from both ends of a header value before the
\* handler can read it (c.req.header reads the request's Headers object).
RECURSIVE TrimLeft(_)
TrimLeft(s) == IF s # <<>> /\ Head(s) = " " THEN TrimLeft(Tail(s)) ELSE s

RECURSIVE TrimRight(_)
TrimRight(s) ==
  IF s # <<>> /\ s[Len(s)] = " " THEN TrimRight(SubSeq(s, 1, Len(s) - 1)) ELSE s

HeaderValue(raw) == TrimRight(TrimLeft(raw))

PUBLIC_PATH_PREFIX == <<"/","a","p","i","/","a","u","t","h">>

BearerPrefix == <<"B","e","a","r","e","r"," ">>

ApiPrefix == <<"/","a","p","i","/">>

PathHealth      == <<"/","h","e","a","l","t","h">>
PathThrowError  == <<"/","t","h","r","o","w","-","e","r","r","o","r">>
PathThrowString == <<"/","t","h","r","o","w","-","s","t","r","i","n","g">>
PathProtected   == ApiPrefix \o <<"p","r","o","t","e","c","t","e","d">>
PathAuthLogin   == PUBLIC_PATH_PREFIX \o <<"/","l","o","g","i","n">>
PathAuthors     == PUBLIC_PATH_PREFIX \o <<"o","r","s">>
PathBookmarks   == ApiPrefix \o <<"b","o","o","k","m","a","r","k","s">>

----------------------------------------------------------------------------
(* Callers, credentials, identity provider *)

Users == {"alice", "bob"}

Undefined == "undefined"

\* supabase.auth.getUser(token): the user a valid token was issued to.
\* Any other token (empty, malformed, expired) is rejected.
TokenUser(token) ==
  IF token = <<"a">> THEN "alice"
  ELSE IF token = <<"b">> THEN "bob"
  ELSE Undefined

NoHeader == [present |-> FALSE, value |-> <<>>]
Sent(v)  == [present |-> TRUE, value |-> v]

\* Authorization headers as clients send them.
RawHeaders ==
  { NoHeader,
    Sent(<<"B","a","s","i","c"," ","q">>),
    Sent(BearerPrefix),
    Sent(BearerPrefix \o <<"a">>),
    Sent(BearerPrefix \o <<"b">>),
    Sent(BearerPrefix \o <<"z">>) }

\* c.req.header('Authorization')
AuthHeader(r) ==
  IF r.header.present THEN Sent(HeaderValue(r.header.value)) ELSE NoHeader

\* !authHeader : undefined and '' are both falsy
Falsy(h) == ~h.present \/ h.value = <<>>

----------------------------------------------------------------------------
(* Requests, responses, thrown values *)

IdChars == <<"1", "2", "3", "4", "5">>

\* The :id path parameter: the identifier of a row that may exist, or "x",
\* which is not a UUID.
IdParams == {<<IdChars[i]>> : i \in 1..MaxIds} \cup {<<"x">>}

ByIdPath(c) == PathBookmarks \o <<"/">> \o c

\* c.req.param('id'): the path segment after /api/bookmarks/
Param(r) == Slice(r.path, Len(PathBookmarks) + 1)

\* z.string().uuid() succeeds
ValidId(c) == \E i \in 1..Len(IdChars) : c = <<IdChars[i]>>

IdOf(c) == CHOOSE i \in 1..Len(IdChars) : <<IdChars[i]>> = c

\* /api/bookmarks/tags
PathTags == ByIdPath(<<"t","a","g","s">>)

ProbePaths ==
  {PathHealth, PathThrowError, PathThrowString, PathProtected, PathAuthLogin,
   PathAuthors}

Requests ==
  [method : {"GET"}, path : ProbePaths, header : RawHeaders]
    \cup [method : {"POST", "GET"}, path : {PathBookmarks}, header : RawHeaders]
    \cup [method : {"GET", "PUT", "DELETE"},
          path : {ByIdPath(c) : c \in IdParams}, header : RawHeaders]
    \cup [method : {"GET"}, path : {PathTags}, header : RawHeaders]

NoRequest == [method |-> "GET", path |-> <<>>, header |-> NoHeader]

NoThrow == [kind |-> "none", message |-> ""]

\* new Error(message)
ErrorOf(m) == [kind |-> "Error", message |-> m]

\* throw 'text' : a thrown value that is not an Error
StringOf(m) == [kind |-> "string", message |-> m]

NoBody == [none |-> TRUE]

\* A field the body does not supply (undefined); for tags, which is an array
Absent == "absent"
AbsentTags == <<Absent>>

NoResponse == [status |-> 0, body |-> NoBody, headers |-> {}]

\* c.json(body, status): a fresh response
Json(status, body) ==
  [status |-> status, body |-> body, headers |-> {"Content-Type"}]

\* c.body(null, status)
Empty(status) == [status |-> status, body |-> NoBody, headers |-> {}]

NoCtx ==
  [userId |-> Undefined, validatedBody |-> NoBody, validatedQuery |-> NoBody]

Event(name, actor, outcome, resource) ==
  [event |-> name, actor |-> actor, outcome |-> outcome, resource |-> resource]

\* An entry authMiddleware logs: no resource, the metadata it is given
AuthEvent(name, actor, outcome, metadata) ==
  [event |-> name, actor |-> actor, outcome |-> outcome, resource |-> 0,
   metadata |-> metadata]

NoHist ==
  [forwarded |-> FALSE,       \* authMiddleware called next()
   providerCalls |-> 0,       \* calls of supabase.auth.getUser
   verified |-> Undefined,    \* the identity the provider returned
   handlerRan |-> FALSE,      \* a route handler was invoked
   validated |-> FALSE,       \* a validation stage ran
   body |-> NoBody,           \* the JSON body validateBody parsed
   rejected |-> FALSE,        \* a validation stage answered the request
   storeCalls |-> 0,          \* calls into the store
   storeFailed |-> 0,         \* of which the store answered with an error
   asked |-> 0,               \* rows the list query asked the store for
   fetched |-> 0,             \* rows the store returned to the list query
   raised |-> NoThrow,        \* the value a downstream stage threw
   caughtBy |-> "none",       \* the stage whose catch block took it
   target |-> "none",         \* what the :id named when the store was called
   selected |-> {},           \* rows the queries' own predicates selected
   marked |-> FALSE]          \* this request set a row's deleted_at

\* No client is following cursors.
\* An update body that supplies no field
NoUpdate ==
  [url |-> "absent", title |-> "absent", description |-> "absent",
   tags |-> <<"absent">>]

NoPeer ==
  [state |-> "none", caller |-> Undefined, id |-> 0, data |-> NoUpdate,
   status |-> 0, after |-> FALSE]

NoWalk ==
  [state |-> "none", caller |-> Undefined, limit |-> 0, cursor |-> 0,
   pages |-> <<>>]

----------------------------------------------------------------------------
(* Routing *)

\* variant: authMiddleware registered for the public prefix only
UnderApi_AuthOnly(path) == StartsWith(path, PUBLIC_PATH_PREFIX)

\* app.use('/api/*', authMiddleware)
UnderApi(path) == StartsWith(path, ApiPrefix)

\* The handler the router selects for the request: the first registered
\* route that matches. bookmarksById (/:id) is registered before bookmarksTags.
Route(r) ==
  IF r.method = "GET" /\ r.path = PathHealth THEN "health"
  ELSE IF r.method = "GET" /\ r.path = PathThrowError THEN "throw-error"
  ELSE IF r.method = "GET" /\ r.path = PathThrowString THEN "throw-string"
  ELSE IF r.method = "GET" /\ r.path = PathProtected THEN "protected"
  ELSE IF r.method = "GET" /\ r.path = PathAuthLogin THEN "auth-login"
  ELSE IF r.method = "POST" /\ r.path = PathBookmarks THEN "create"
  ELSE IF r.method = "GET" /\ r.path = PathBookmarks THEN "list"
  ELSE IF StartsWith(r.path, PathBookmarks \o <<"/">>)
          /\ Len(r.path) > Len(PathBookmarks) + 1
       THEN (IF r.method = "GET" THEN "get"
             ELSE IF r.method = "PUT" THEN "update"
             ELSE IF r.method = "DELETE" THEN "delete"
             ELSE "none")
  ELSE "none"

\* Where the chain resumes once the innermost stage has returned or thrown.
UnwindFrom(r) == IF UnderApi(r.path) THEN "unwind_auth" ELSE "unwind_headers"

----------------------------------------------------------------------------
(* authMiddleware *)

\* variant: the whole /api/ subtree treated as public
IsPublicPath_Api(path) == StartsWith(path, ApiPrefix)

IsPublicPath(path) == StartsWith(path, PUBLIC_PATH_PREFIX)

\* variant: the scheme is tested without its trailing space
HasBearer_NoSpace(h) ==
  ~Falsy(h) /\ StartsWith(h.value, <<"B","e","a","r","e","r">>)

HasBearer(h) == ~Falsy(h) /\ StartsWith(h.value, BearerPrefix)

Token(h) == Slice(h.value, 7)

----------------------------------------------------------------------------
(* headersMiddleware *)

SecurityHeaders ==
  {"Strict-Transport-Security", "X-Content-Type-Options", "X-Frame-Options",
   "Referrer-Policy", "Content-Security-Policy", "Permissions-Policy"}

CacheHeaders == {"Cache-Control", "Pragma"}

\* if (authHeader)
CacheApplies(h) == ~Falsy(h)

Decorate(r, h) ==
  [r EXCEPT !.headers =
     @ \cup SecurityHeaders \cup (IF CacheApplies(h) THEN CacheHeaders ELSE {})]

----------------------------------------------------------------------------
(* errorMiddleware *)

\* err instanceof Error ? err.message : 'Unknown error'
ErrorMessage(err) == IF err.kind = "Error" THEN err.message ELSE "Unknown error"

\* variant: the caught value's message is put in the body
GenericErrorBody_Leaks(err) == [error |-> ErrorMessage(err)]

GenericErrorBody(err) == [error |-> "An internal error occurred"]

----------------------------------------------------------------------------
Init ==
  /\ store = <<>>
  /\ clock = 1
  /\ pc = "idle"
  /\ req = NoRequest
  /\ ctx = NoCtx
  /\ res = NoResponse
  /\ thrown = NoThrow
  /\ inAuthTry = FALSE
  /\ log = <<>>
  /\ hist = NoHist
  /\ walk = NoWalk
  /\ peer = NoPeer

\* A request arrives: errorMiddleware enters its try block and calls next(),
\* headersMiddleware calls next().
Receive ==
  /\ pc = "idle"
  /\ \E r \in Requests :
       /\ req' = r
       /\ pc' = IF UnderApi(r.path) THEN "auth" ELSE "route"
  /\ UNCHANGED <<store, clock, ctx, res, thrown, inAuthTry, log, hist, walk, peer>>

AuthPublic ==
  /\ pc = "auth"
  /\ IsPublicPath(req.path)
  /\ pc' = "route"
  /\ hist' = [hist EXCEPT !.forwarded = TRUE]
  /\ UNCHANGED <<store, clock, req, ctx, res, thrown, inAuthTry, log, walk, peer>>

AuthMissingToken ==
  /\ pc = "auth"
  /\ ~IsPublicPath(req.path)
  /\ ~HasBearer(AuthHeader(req))
  /\ log' = Append(log, AuthEvent("auth.missing_token", "anonymous", "failure",
                                  [path |-> req.path, method |-> req.method]))
  /\ res' = Json(401, [error |-> "Authentication required"])
  /\ pc' = "unwind_headers"
  /\ UNCHANGED <<store, clock, req, ctx, thrown, inAuthTry, hist, walk, peer>>

\* getUser answered with a user
AuthVerified ==
  /\ pc = "auth"
  /\ ~IsPublicPath(req.path)
  /\ HasBearer(AuthHeader(req))
  /\ LET user == TokenUser(Token(AuthHeader(req))) IN
       /\ user # Undefined
       /\ ctx' = [ctx EXCEPT !.userId = user]
       /\ log' = Append(log, AuthEvent("auth.verified", user, "success",
                                       [path |-> req.path, method |-> req.method]))
       /\ hist' = [hist EXCEPT !.providerCalls = @ + 1, !.verified = user,
                               !.forwarded = TRUE]
  /\ inAuthTry' = TRUE
  /\ pc' = "route"
  /\ UNCHANGED <<store, clock, req, res, thrown, walk, peer>>

\* getUser answered with an error or with no user
AuthInvalidToken ==
  /\ pc = "auth"
  /\ ~IsPublicPath(req.path)
  /\ HasBearer(AuthHeader(req))
  /\ TokenUser(Token(AuthHeader(req))) = Undefined
  /\ log' = Append(log, AuthEvent("auth.invalid_token", "anonymous", "failure",
                                  [path |-> req.path, method |-> req.method,
                                   error |-> "invalid JWT"]))
  /\ res' = Json(401, [error |-> "Invalid or expired token"])
  /\ hist' = [hist EXCEPT !.providerCalls = @ + 1]
  /\ pc' = "unwind_headers"
  /\ UNCHANGED <<store, clock, req, ctx, thrown, inAuthTry, walk, peer>>

\* variant: no try/catch around the verification call, the throw propagates
AuthVerificationError_Rethrows ==
  /\ pc = "auth"
  /\ ~IsPublicPath(req.path)
  /\ HasBearer(AuthHeader(req))
  /\ thrown' = ErrorOf("fetch failed")
  /\ hist' = [hist EXCEPT !.providerCalls = @ + 1]
  /\ pc' = "unwind_headers"
  /\ UNCHANGED <<store, clock, req, ctx, res, inAuthTry, log, walk, peer>>

\* getUser threw: the catch block of authMiddleware
AuthVerificationError ==
  /\ pc = "auth"
  /\ ~IsPublicPath(req.path)
  /\ HasBearer(AuthHeader(req))
  /\ log' = Append(log, AuthEvent("auth.verification_error", "anonymous",
                                  "failure",
                                  [path |-> req.path, error |-> "fetch failed"]))
  /\ res' = Json(401, [error |-> "Authentication failed"])
  /\ hist' = [hist EXCEPT !.providerCalls = @ + 1]
  /\ pc' = "unwind_headers"
  /\ UNCHANGED <<store, clock, req, ctx, thrown, inAuthTry, walk, peer>>

----------------------------------------------------------------------------
(* The store: table bookmarks with its row-level security policies *)

NULL == 0

\* NULL in a text column, and in the tags column
NullText == "null"
NullTags == <<NullText>>

Titles == {"t1", "t2"}

\* policy "Users can view their own bookmarks"
RlsSelect(uid, row) == uid = row.user_id /\ row.deleted_at = NULL

\* policies "Users can update their own bookmarks" and "Users can delete
\* (soft delete) their own bookmarks": permissive policies are OR-ed
RlsUpdate(uid, row) ==
  (uid = row.user_id /\ row.deleted_at = NULL) \/ uid = row.user_id

\* WITH CHECK of both UPDATE policies, applied to the row as updated
RlsUpdateCheck(uid, row) == uid = row.user_id

\* policy "Users can insert their own bookmarks"
RlsInsert(uid, row) == uid = row.user_id

\* What the identifier names for the caller when the store is called.
Classify(uid, id) ==
  IF id \notin DOMAIN store THEN "absent"
  ELSE IF store[id].user_id # uid THEN "foreign"
  ELSE IF store[id].deleted_at # NULL THEN "deleted"
  ELSE "active"

----------------------------------------------------------------------------
(* Schemas and the validation stage *)

\* Limits of the schemas
MaxUrlLength == 2048
MaxTitleLength == 500
MaxDescriptionLength == 2000
MaxTagLength == 50
MaxTagCount == 20

GoodUrl == "https://a"

\* The strings the model sends, with their lengths in characters.
CharLength(s) ==
  CASE s = "" -> 0
    [] s \in {"x", "y"} -> 1
    [] s \in {"t1", "t2", "d1", "d2"} -> 2
    [] s = "ftp://a" -> 7
    [] s = "http://a" -> 8
    [] s \in {"https://a", "https://b", "not a url"} -> 9
    [] s = "tag50" -> 50
    [] s = "tag51" -> 51
    [] s = "title500" -> 500
    [] s = "title501" -> 501
    [] s = "description2000" -> 2000
    [] s = "description2001" -> 2001
    [] s = "https://url2048" -> 2048
    [] s = "https://url2049" -> 2049

\* z.string().url(): the string parses as a URL, whatever its scheme
IsUrl(s) == s # "not a url" /\ s # ""

\* z.string().url().max(2048)
UrlOk(v) == IsUrl(v) /\ CharLength(v) <= MaxUrlLength

\* z.string().min(1).max(500)
TitleOk(v) == CharLength(v) >= 1 /\ CharLength(v) <= MaxTitleLength

\* z.string().max(2000)
DescriptionOk(v) == CharLength(v) <= MaxDescriptionLength

\* z.array(z.string().max(50)).max(20)
TagsOk(t) ==
  /\ Len(t) <= MaxTagCount
  /\ \A i \in 1..Len(t) : CharLength(t[i]) <= MaxTagLength

\* An array of n tags
TagsOfCount(n) == [k \in 1..n |-> "x"]

\* Parsed JSON bodies a client may send; json = FALSE is an unparsable body.
\* user_id is a field no schema knows.
Bodies ==
  [json : BOOLEAN, url : {GoodUrl}, title : Titles \cup {"", Absent},
   description : {Absent}, tags : {AbsentTags, TagsOfCount(MaxTagCount + 1)},
   user_id : Users \cup {Absent}]

\* CreateBookmarkSchema.safeParse: fields in error (empty when it succeeds)
CreateErrors(b) ==
  {f \in {"url"} : b.url = Absent \/ ~UrlOk(b.url)}
    \cup {f \in {"title"} : b.title = Absent \/ ~TitleOk(b.title)}
    \cup {f \in {"description"} :
            b.description # Absent /\ ~DescriptionOk(b.description)}
    \cup {f \in {"tags"} : b.tags # AbsentTags /\ ~TagsOk(b.tags)}

\* UpdateBookmarkSchema.safeParse: every field is optional
UpdateErrors(b) ==
  {f \in {"url"} : b.url # Absent /\ ~UrlOk(b.url)}
    \cup {f \in {"title"} : b.title # Absent /\ ~TitleOk(b.title)}
    \cup {f \in {"description"} :
            b.description # Absent /\ ~DescriptionOk(b.description)}
    \cup {f \in {"tags"} : b.tags # AbsentTags /\ ~TagsOk(b.tags)}

SchemaErrors(route, b) ==
  IF route = "create" THEN CreateErrors(b) ELSE UpdateErrors(b)

\* variant: unknown fields are passed through
Parsed_Passthrough(b) ==
  [url |-> b.url, title |-> b.title, description |-> b.description,
   tags |-> b.tags, user_id |-> b.user_id]

\* result.data: the parsed value, unknown fields stripped
Parsed(b) ==
  [url |-> b.url, title |-> b.title, description |-> b.description,
   tags |-> b.tags]

\* c.get('userId') ?? 'unauthenticated'
ActorOf(c) == IF c.userId = Undefined THEN "unauthenticated" ELSE c.userId

Validated == {"create", "update"}

\* variant: the stage answers and calls next() all the same
Rejected_CallsNext(r) == "handler"

\* return c.json(.., 400): the stage returns without calling next()
Rejected(r) == UnwindFrom(r)

\* validateBody: await c.req.json() threw
ValidateBadJson ==
  /\ pc = "route"
  /\ Route(req) \in Validated
  /\ res' = Json(400, [error |-> "Invalid JSON in request body"])
  /\ hist' = [hist EXCEPT !.validated = TRUE, !.rejected = TRUE]
  /\ pc' = Rejected(req)
  /\ UNCHANGED <<store, clock, req, ctx, thrown, inAuthTry, log, walk, peer>>

\* validateBody: schema.safeParse(rawBody) failed, for a body out of S
ValidateFailedOn(S) ==
  /\ pc = "route"
  /\ Route(req) \in Validated
  /\ \E b \in S :
       /\ b.json
       /\ SchemaErrors(Route(req), b) # {}
       /\ res' = Json(400, [error |-> "Validation failed",
                            details |-> SchemaErrors(Route(req), b)])
       /\ hist' = [hist EXCEPT !.validated = TRUE, !.rejected = TRUE,
                               !.body = b]
  /\ log' = Append(log, Event("validation.body.failed", ActorOf(ctx), "failure", 0))
  /\ pc' = Rejected(req)
  /\ UNCHANGED <<store, clock, req, ctx, thrown, inAuthTry, walk, peer>>

\* validateBody: c.set('validatedBody', result.data); await next(), for a
\* body out of S
ValidateOkOn(S) ==
  /\ pc = "route"
  /\ Route(req) \in Validated
  /\ \E b \in S :
       /\ b.json
       /\ SchemaErrors(Route(req), b) = {}
       /\ ctx' = [ctx EXCEPT !.validatedBody = Parsed(b)]
       /\ hist' = [hist EXCEPT !.validated = TRUE, !.body = b]
  /\ pc' = "handler"
  /\ UNCHANGED <<store, clock, req, res, thrown, inAuthTry, log, walk, peer>>

ValidateFailed == ValidateFailedOn(Bodies)

ValidateOk == ValidateOkOn(Bodies)

\* A query parameter the request does not carry, for cursor
NoCursorParam == <<Absent>>

\* limit and cursor of a validated query when the request carried none
NoLimit == 0
NoCursor == 0

\* Number(s) for the limit strings the model sends
LimitNumber(s) ==
  CASE s = "0" -> 0 [] s = "1" -> 1 [] s = "2" -> 2 [] s = "3" -> 3
    [] s = "100" -> 100 [] s = "101" -> 101

\* z.string().regex(/^\d+$/)
IsDigits(s) == s \in {"0", "1", "2", "3", "100", "101"}

MinLimit == 1
MaxLimit == 100

\* Query strings a client may send to GET /api/bookmarks
Queries ==
  [tag : {Absent, "tag51"}, cursor : {NoCursorParam, <<"1">>, <<"x">>},
   limit : {Absent, "1", "0"}]

\* BookmarkQuerySchema.safeParse: fields in error
QueryErrors(q) ==
  {f \in {"tag"} : q.tag # Absent /\ CharLength(q.tag) > MaxTagLength}
    \cup {f \in {"cursor"} : q.cursor # NoCursorParam /\ ~ValidId(q.cursor)}
    \cup {f \in {"limit"} :
            /\ q.limit # Absent
            /\ ~(/\ IsDigits(q.limit)
                 /\ LimitNumber(q.limit) >= MinLimit
                 /\ LimitNumber(q.limit) <= MaxLimit)}

\* result.data of BookmarkQuerySchema: limit transformed to a number
ParsedQuery(q) ==
  [tag |-> q.tag,
   cursor |-> IF q.cursor = NoCursorParam THEN NoCursor ELSE IdOf(q.cursor),
   limit |-> IF q.limit = Absent THEN NoLimit ELSE LimitNumber(q.limit)]

QueryValidated == {"list"}

\* validateQuery: schema.safeParse(rawQuery) failed
ValidateQueryFailed ==
  /\ pc = "route"
  /\ Route(req) \in QueryValidated
  /\ \E q \in Queries :
       /\ QueryErrors(q) # {}
       /\ res' = Json(400, [error |-> "Invalid query parameters",
                            details |-> QueryErrors(q)])
  /\ log' = Append(log, Event("validation.query.failed", ActorOf(ctx), "failure", 0))
  /\ hist' = [hist EXCEPT !.validated = TRUE, !.rejected = TRUE]
  /\ pc' = Rejected(req)
  /\ UNCHANGED <<store, clock, req, ctx, thrown, inAuthTry, walk, peer>>

\* validateQuery: c.set('validatedQuery', result.data); await next()
ValidateQueryOk ==
  /\ pc = "route"
  /\ Route(req) \in QueryValidated
  /\ \E q \in Queries :
       /\ QueryErrors(q) = {}
       /\ ctx' = [ctx EXCEPT !.validatedQuery = ParsedQuery(q)]
  /\ hist' = [hist EXCEPT !.validated = TRUE]
  /\ pc' = "handler"
  /\ UNCHANGED <<store, clock, req, res, thrown, inAuthTry, log, walk, peer>>

\* The pipeline has reached the handler of the named route.
AtHandler(name) ==
  /\ Route(req) = name
  /\ IF name \in Validated \cup QueryValidated
     THEN pc = "handler" ELSE pc = "route"

----------------------------------------------------------------------------
(* BookmarkService: the rows each store call matches *)

\* The filters the by-id queries themselves carry:
\*   .eq('id', id).is('deleted_at', null)
ByIdFilter(id) == {i \in DOMAIN store : i = id /\ store[i].deleted_at = NULL}

\* variant: the deletion marker is not looked at
GetMatch_IgnoresDeleted(uid, id) ==
  {i \in DOMAIN store : i = id /\ store[i].user_id = uid}

\* getBookmarkById: .select('*').eq('id', id).is('deleted_at', null),
\* under the SELECT policy
GetMatch(uid, id) == {i \in ByIdFilter(id) : RlsSelect(uid, store[i])}

\* variant: the update carries no filter on the deletion marker
UpdateMatch_AnyMarker(uid, id) ==
  {i \in DOMAIN store : i = id /\ RlsUpdate(uid, store[i])}

\* updateBookmark: .update(updateData).eq('id', id).is('deleted_at', null),
\* under the UPDATE policies
UpdateMatch(uid, id) == {i \in ByIdFilter(id) : RlsUpdate(uid, store[i])}

\* deleteBookmark: .update({deleted_at}).eq('id', id).is('deleted_at', null),
\* under the UPDATE policies
DeleteMatch(uid, id) == {i \in ByIdFilter(id) : RlsUpdate(uid, store[i])}

\* The filter the cursor lookup itself carries: .eq('id', query.cursor)
CursorFilter(cursor) == {i \in DOMAIN store : i = cursor}

\* listBookmarks, cursor lookup: .select('created_at').eq('id', cursor).single()
CursorMatch(uid, cursor) ==
  {i \in CursorFilter(cursor) : RlsSelect(uid, store[i])}

\* .contains('tags', [tag])
ContainsTag(row, tag) ==
  row.tags # NullTags /\ \E k \in 1..Len(row.tags) : row.tags[k] = tag

\* variant: a cursor that resolves to no row leaves no row to return
ListFilter_StrictCursor(uid, query) ==
  {i \in DOMAIN store :
     /\ store[i].deleted_at = NULL
     /\ (query.tag \notin {Absent, ""} => ContainsTag(store[i], query.tag))
     /\ (query.cursor # NoCursor =>
           \E c \in CursorMatch(uid, query.cursor) :
              store[i].created_at < store[c].created_at)}

\* listBookmarks: the rows the list query selects.
\*   .select('*').is('deleted_at', null) [.contains('tags', [tag])]
\*   [.lt('created_at', cursorBookmark.created_at)]
ListFilter(uid, query) ==
  {i \in DOMAIN store :
     /\ store[i].deleted_at = NULL
     /\ (query.tag \notin {Absent, ""} => ContainsTag(store[i], query.tag))
     /\ (query.cursor # NoCursor =>
           \A c \in CursorMatch(uid, query.cursor) :
              store[i].created_at < store[c].created_at)}

ListMatch(uid, query) ==
  {i \in ListFilter(uid, query) : RlsSelect(uid, store[i])}

\* .order('created_at', { ascending: false }): the orders in which the store
\* may return the rows of S; rows with equal created_at come in any order
DescOrders(S) ==
  {q \in [1..Cardinality(S) -> S] :
     /\ \A i, j \in 1..Cardinality(S) : i # j => q[i] # q[j]
     /\ \A i, j \in 1..Cardinality(S) :
          i < j => store[q[i]].created_at >= store[q[j]].created_at}

DefaultLimit == 20

\* const limit = query.limit || 20
LimitOf(query) == IF query.limit = NoLimit THEN DefaultLimit ELSE query.limit

\* variant: the query asks for the page size itself
Asked_NoExtra(limit) == limit

\* .limit(limit + 1): the number of rows the list query asks for
Asked(limit) == limit + 1

\* .limit(limit + 1) applied to the ordered rows
Fetched(q, limit) ==
  SubSeq(q, 1, IF Len(q) > Asked(limit) THEN Asked(limit) ELSE Len(q))

\* { bookmarks, hasMore, cursor } computed from the fetched rows
ListResult(fetched, limit) ==
  LET hasMore == Len(fetched) > limit
      ids == IF hasMore THEN SubSeq(fetched, 1, limit) ELSE fetched
  IN [data |-> [k \in 1..Len(ids) |-> store[ids[k]]],
      meta |-> [cursor |-> IF hasMore /\ Len(ids) > 0
                           THEN ids[Len(ids)] ELSE NoCursor,
                hasMore |-> hasMore]]

\* getUserTags: .select('tags').is('deleted_at', null).not('tags', 'is', null)
TagsFilter ==
  {i \in DOMAIN store : store[i].deleted_at = NULL /\ store[i].tags # NullTags}

TagsMatch(uid) == {i \in TagsFilter : RlsSelect(uid, store[i])}

\* Position of a tag in the order Array.prototype.sort gives the tags the
\* model uses
TagRank(t) ==
  CASE t = "" -> 0 [] t = "tag50" -> 1 [] t = "tag51" -> 2 [] t = "x" -> 3
    [] t = "y" -> 4

RECURSIVE SortTags(_)
\* .sort() of a set of distinct tags
SortTags(T) ==
  IF T = {} THEN <<>>
  ELSE LET m == CHOOSE t \in T : \A u \in T : TagRank(t) <= TagRank(u)
       IN <<m>> \o SortTags(T \ {m})

\* flatMap(tags).filter(first occurrence).sort()
UserTags(uid) ==
  SortTags(UNION {{store[i].tags[k] : k \in 1..Len(store[i].tags)} :
                    i \in TagsMatch(uid)})

\* variant: the row's fields are replaced by the body, a field the body
\* leaves out becomes null
ApplyUpdate_Replaces(row, data) ==
  [row EXCEPT
     !.url = IF data.url = Absent THEN NullText ELSE data.url,
     !.title = IF data.title = Absent THEN NullText ELSE data.title,
     !.description =
        IF data.description = Absent THEN NullText ELSE data.description,
     !.tags = IF data.tags = AbsentTags THEN NullTags ELSE data.tags]

\* data.description || null : undefined and '' are both falsy
DescriptionOrNull(d) == IF d = Absent \/ d = "" THEN NullText ELSE d

\* data.tags || null : an empty array is truthy
TagsOrNull(t) == IF t = AbsentTags THEN NullTags ELSE t

\* variant: description and tags are written as (data.x || null), the way
\* createBookmark builds its row
ApplyUpdate_NullsOptional(row, data) ==
  [row EXCEPT
     !.url = IF data.url = Absent THEN @ ELSE data.url,
     !.title = IF data.title = Absent THEN @ ELSE data.title,
     !.description = DescriptionOrNull(data.description),
     !.tags = TagsOrNull(data.tags)]

\* updateData = { ...data } applied to a row: every key data supplies is
\* written, no other column changes
ApplyUpdate(row, data) ==
  [row EXCEPT
     !.url = IF data.url = Absent THEN @ ELSE data.url,
     !.title = IF data.title = Absent THEN @ ELSE data.title,
     !.description = IF data.description = Absent THEN @ ELSE data.description,
     !.tags = IF data.tags = AbsentTags THEN @ ELSE data.tags,
     !.user_id = IF "user_id" \in DOMAIN data /\ data.user_id # Absent
                 THEN data.user_id ELSE @]

\* bookmarkData = { ...data, user_id, tags, description } as the store
\* inserts it: id and created_at are column defaults
NewRow(uid, data, id, now) ==
  [id |-> id, user_id |-> uid, url |-> data.url, title |-> data.title,
   description |-> DescriptionOrNull(data.description),
   tags |-> TagsOrNull(data.tags), created_at |-> now, deleted_at |-> NULL]

----------------------------------------------------------------------------
(* Route handlers of /api/bookmarks *)

NotFoundBody == [error |-> "Bookmark not found"]

FailedMessage(route) ==
  IF route = "get" THEN "Failed to fetch bookmark"
  ELSE IF route = "update" THEN "Failed to update bookmark"
  ELSE IF route = "delete" THEN "Failed to delete bookmark"
  ELSE IF route = "list" THEN "Failed to fetch bookmarks"
  ELSE "Failed to create bookmark"

\* validateId threw 'Invalid ID format', caught by the handler
HandleInvalidId ==
  /\ \E name \in {"get", "update", "delete"} : AtHandler(name)
  /\ ~ValidId(Param(req))
  /\ res' = Json(400, [error |-> "Invalid bookmark ID"])
  /\ hist' = [hist EXCEPT !.handlerRan = TRUE]
  /\ pc' = UnwindFrom(req)
  /\ UNCHANGED <<store, clock, req, ctx, thrown, inAuthTry, log, walk, peer>>

\* The store call of a handler reported an error other than PGRST116: the
\* service logs and throws, the handler's catch answers 500.
HandleStoreError ==
  /\ \E name \in {"create", "list", "get", "update", "delete"} :
       AtHandler(name)
  /\ Route(req) \in {"create", "list"} \/ ValidId(Param(req))
  /\ log' = Append(log,
       Event(IF Route(req) = "create" THEN "bookmark.create.failed"
             ELSE IF Route(req) = "list" THEN "bookmark.list.failed"
             ELSE IF Route(req) = "get" THEN "bookmark.get.failed"
             ELSE IF Route(req) = "update" THEN "bookmark.update.failed"
             ELSE "bookmark.delete.failed",
             ctx.userId, "failure",
             IF Route(req) \in {"create", "list"} THEN 0
             ELSE IdOf(Param(req))))
  /\ res' = Json(500, [error |-> FailedMessage(Route(req))])
  /\ hist' = [hist EXCEPT !.handlerRan = TRUE, !.storeCalls = @ + 1,
                          !.storeFailed = @ + 1]
  /\ pc' = UnwindFrom(req)
  /\ UNCHANGED <<store, clock, req, ctx, thrown, inAuthTry, walk, peer>>

\* POST / : createAuthenticatedSupabaseClient(c) and new BookmarkService(..)
\* run outside the handler's try block; what they throw leaves the handler.
HandlerThrows ==
  /\ AtHandler("create")
  /\ thrown' = ErrorOf("client")
  /\ hist' = [hist EXCEPT !.handlerRan = TRUE, !.raised = ErrorOf("client")]
  /\ pc' = UnwindFrom(req)
  /\ UNCHANGED <<store, clock, req, ctx, res, inAuthTry, log, walk, peer>>

\* POST / : service.createBookmark(data) -> 201
CreateStep ==
  /\ AtHandler("create")
  /\ LET id == Len(store) + 1
         row == NewRow(ctx.userId, ctx.validatedBody, id, clock) IN
       /\ RlsInsert(ctx.userId, row)
       /\ store' = Append(store, row)
       /\ log' = Append(log, Event("bookmark.created", ctx.userId, "success", id))
       /\ res' = Json(201, [data |-> row])
  /\ clock' \in {clock, clock + 1}
  /\ hist' = [hist EXCEPT !.handlerRan = TRUE, !.storeCalls = @ + 1]
  /\ pc' = UnwindFrom(req)
  /\ UNCHANGED <<req, ctx, thrown, inAuthTry, walk, peer>>

\* POST / while the store has room for another row
HandleCreate == Len(store) < MaxIds /\ CreateStep

\* GET / : service.listBookmarks(query) -> 200 { data, meta }
HandleList ==
  /\ AtHandler("list")
  /\ LET query == ctx.validatedQuery
         limit == LimitOf(query) IN
       \E q \in DescOrders(ListMatch(ctx.userId, query)) :
         LET result == ListResult(Fetched(q, limit), limit) IN
           /\ res' = Json(200, result)
           /\ log' = Append(log,
                Event("bookmark.listed", ctx.userId, "success", 0))
           /\ hist' = [hist EXCEPT
                !.handlerRan = TRUE,
                !.storeCalls = @ + (IF query.cursor = NoCursor THEN 1 ELSE 2),
                !.asked = Asked(limit),
                !.fetched = Len(Fetched(q, limit)),
                !.selected = ListFilter(ctx.userId, query)
                               \cup (IF query.cursor = NoCursor THEN {}
                                     ELSE CursorFilter(query.cursor))]
  /\ pc' = UnwindFrom(req)
  /\ UNCHANGED <<store, clock, req, ctx, thrown, inAuthTry, walk, peer>>

\* GET / with a cursor whose lookup the store answers with an error:
\* listBookmarks reads only { data: cursorBookmark }, which is null, adds no
\* created_at filter and goes on to the list query.
HandleListLookupFailed ==
  /\ AtHandler("list")
  /\ ctx.validatedQuery.cursor # NoCursor
  /\ LET query == [ctx.validatedQuery EXCEPT !.cursor = NoCursor]
         limit == LimitOf(query) IN
       \E q \in DescOrders(ListMatch(ctx.userId, query)) :
         LET result == ListResult(Fetched(q, limit), limit) IN
           /\ res' = Json(200, result)
           /\ log' = Append(log,
                Event("bookmark.listed", ctx.userId, "success", 0))
           /\ hist' = [hist EXCEPT
                !.handlerRan = TRUE,
                !.storeCalls = @ + 2,
                !.storeFailed = @ + 1,
                !.asked = Asked(limit),
                !.fetched = Len(Fetched(q, limit)),
                !.selected = ListFilter(ctx.userId, query)
                               \cup CursorFilter(ctx.validatedQuery.cursor)]
  /\ pc' = UnwindFrom(req)
  /\ UNCHANGED <<store, clock, req, ctx, thrown, inAuthTry, walk, peer>>

\* GET /:id : service.getBookmarkById(id) -> 200, or null -> 404
HandleGet ==
  /\ AtHandler("get")
  /\ ValidId(Param(req))
  /\ LET id == IdOf(Param(req))
         rows == GetMatch(ctx.userId, id) IN
       /\ hist' = [hist EXCEPT !.handlerRan = TRUE, !.storeCalls = @ + 1,
                               !.target = Classify(ctx.userId, id),
                               !.selected = ByIdFilter(id)]
       /\ IF rows = {}
          THEN /\ res' = Json(404, NotFoundBody)
               /\ log' = log
          ELSE /\ res' = Json(200, [data |-> store[id]])
               /\ log' = Append(log,
                    Event("bookmark.retrieved", ctx.userId, "success", id))
  /\ pc' = UnwindFrom(req)
  /\ UNCHANGED <<store, clock, req, ctx, thrown, inAuthTry, walk, peer>>

\* PUT /:id : service.updateBookmark(id, data) -> 200, or null -> 404
HandleUpdate ==
  /\ AtHandler("update")
  /\ ValidId(Param(req))
  /\ LET id == IdOf(Param(req))
         rows == UpdateMatch(ctx.userId, id) IN
       /\ hist' = [hist EXCEPT !.handlerRan = TRUE, !.storeCalls = @ + 1,
                               !.target = Classify(ctx.userId, id),
                               !.selected = ByIdFilter(id)]
       /\ IF rows = {}
          THEN /\ res' = Json(404, NotFoundBody)
               /\ UNCHANGED <<store, log>>
          ELSE LET row == ApplyUpdate(store[id], ctx.validatedBody) IN
               IF RlsUpdateCheck(ctx.userId, row)
               THEN /\ store' = [store EXCEPT ![id] = row]
                    /\ res' = Json(200, [data |-> row])
                    /\ log' = Append(log,
                         Event("bookmark.updated", ctx.userId, "success", id))
               ELSE /\ store' = store
                    /\ res' = Json(500, [error |-> FailedMessage("update")])
                    /\ log' = Append(log,
                         Event("bookmark.update.failed", ctx.userId, "failure", id))
  /\ pc' = UnwindFrom(req)
  /\ UNCHANGED <<clock, req, ctx, thrown, inAuthTry, walk, peer>>

\* DELETE /:id : await service.deleteBookmark(id); c.body(null, 204)
HandleDelete ==
  /\ AtHandler("delete")
  /\ ValidId(Param(req))
  /\ LET id == IdOf(Param(req))
         rows == DeleteMatch(ctx.userId, id) IN
       /\ hist' = [hist EXCEPT !.handlerRan = TRUE, !.storeCalls = @ + 1,
                               !.target = Classify(ctx.userId, id),
                               !.selected = ByIdFilter(id),
                               !.marked = (rows # {})]
       /\ store' = IF rows = {} THEN store
                   ELSE [store EXCEPT ![id].deleted_at = clock]
       /\ clock' = IF rows = {} THEN clock ELSE clock + 1
       /\ log' = Append(log, Event("bookmark.deleted", ctx.userId, "success", id))
       /\ res' = Empty(204)
  /\ pc' = UnwindFrom(req)
  /\ UNCHANGED <<req, ctx, thrown, inAuthTry, walk, peer>>

----------------------------------------------------------------------------
(* Routes outside /api/bookmarks *)

\* app.get('/health', (c) => c.json({ status: 'ok' }))
HandleHealth ==
  /\ AtHandler("health")
  /\ res' = Json(200, [status |-> "ok"])
  /\ hist' = [hist EXCEPT !.handlerRan = TRUE]
  /\ pc' = UnwindFrom(req)
  /\ UNCHANGED <<store, clock, req, ctx, thrown, inAuthTry, log, walk, peer>>

\* a protected route that answers with c.get('userId')
HandleProtected ==
  /\ AtHandler("protected")
  /\ res' = Json(200, [userId |-> ctx.userId])
  /\ hist' = [hist EXCEPT !.handlerRan = TRUE]
  /\ pc' = UnwindFrom(req)
  /\ UNCHANGED <<store, clock, req, ctx, thrown, inAuthTry, log, walk, peer>>

\* a route under the public prefix
HandleAuthLogin ==
  /\ AtHandler("auth-login")
  /\ res' = Json(200, [status |-> "login page"])
  /\ hist' = [hist EXCEPT !.handlerRan = TRUE]
  /\ pc' = UnwindFrom(req)
  /\ UNCHANGED <<store, clock, req, ctx, thrown, inAuthTry, log, walk, peer>>

SecretMessage == "Secret database connection string"

\* a route whose handler throws an Error, or a value that is not an Error
HandleThrow ==
  /\ \/ AtHandler("throw-error")
     \/ AtHandler("throw-string")
  /\ LET v == IF Route(req) = "throw-error" THEN ErrorOf(SecretMessage)
              ELSE StringOf("something went wrong") IN
       /\ thrown' = v
       /\ hist' = [hist EXCEPT !.handlerRan = TRUE, !.raised = v]
  /\ pc' = UnwindFrom(req)
  /\ UNCHANGED <<store, clock, req, ctx, res, inAuthTry, log, walk, peer>>

\* no route is registered for the method and path
NotFound ==
  /\ pc = "route"
  /\ Route(req) = "none"
  /\ res' = [status |-> 404, body |-> [text |-> "404 Not Found"], headers |-> {}]
  /\ pc' = UnwindFrom(req)
  /\ UNCHANGED <<store, clock, req, ctx, thrown, inAuthTry, log, hist, walk, peer>>

----------------------------------------------------------------------------
(* The chain unwinds *)

\* authMiddleware: await next() threw inside the try block
AuthCatch ==
  /\ pc = "unwind_auth"
  /\ thrown # NoThrow
  /\ inAuthTry
  /\ log' = Append(log, AuthEvent("auth.verification_error", "anonymous",
                                  "failure",
                                  [path |-> req.path,
                                   error |-> ErrorMessage(thrown)]))
  /\ res' = Json(401, [error |-> "Authentication failed"])
  /\ thrown' = NoThrow
  /\ hist' = [hist EXCEPT !.caughtBy = "auth"]
  /\ pc' = "unwind_headers"
  /\ UNCHANGED <<store, clock, req, ctx, inAuthTry, walk, peer>>

\* authMiddleware: next() returned, or threw outside the try block
AuthReturn ==
  /\ pc = "unwind_auth"
  /\ thrown = NoThrow \/ ~inAuthTry
  /\ pc' = "unwind_headers"
  /\ UNCHANGED <<store, clock, req, ctx, res, thrown, inAuthTry, log, hist, walk, peer>>

\* headersMiddleware: the statements after await next()
HeadersApply ==
  /\ pc = "unwind_headers"
  /\ thrown = NoThrow
  /\ res' = Decorate(res, AuthHeader(req))
  /\ pc' = "unwind_errors"
  /\ UNCHANGED <<store, clock, req, ctx, thrown, inAuthTry, log, hist, walk, peer>>

\* headersMiddleware: await next() threw, the statements after it are skipped
HeadersSkipped ==
  /\ pc = "unwind_headers"
  /\ thrown # NoThrow
  /\ pc' = "unwind_errors"
  /\ UNCHANGED <<store, clock, req, ctx, res, thrown, inAuthTry, log, hist, walk, peer>>

\* variant: the catch block logs and throws the value on
ErrorsCatch_Rethrows ==
  /\ pc = "unwind_errors"
  /\ thrown # NoThrow
  /\ log' = Append(log, Event("server.unhandled_error", ActorOf(ctx), "failure", 0))
  /\ hist' = [hist EXCEPT !.caughtBy = "errors"]
  /\ pc' = "done"
  /\ UNCHANGED <<store, clock, req, ctx, res, thrown, inAuthTry, walk, peer>>

\* errorMiddleware: the catch block
ErrorsCatch ==
  /\ pc = "unwind_errors"
  /\ thrown # NoThrow
  /\ log' = Append(log, Event("server.unhandled_error", ActorOf(ctx), "failure", 0))
  /\ res' = Json(500, GenericErrorBody(thrown))
  /\ thrown' = NoThrow
  /\ hist' = [hist EXCEPT !.caughtBy = "errors"]
  /\ pc' = "done"
  /\ UNCHANGED <<store, clock, req, ctx, inAuthTry, walk, peer>>

\* errorMiddleware: next() returned
ErrorsReturn ==
  /\ pc = "unwind_errors"
  /\ thrown = NoThrow
  /\ pc' = "done"
  /\ UNCHANGED <<store, clock, req, ctx, res, thrown, inAuthTry, log, hist, walk, peer>>

\* the response leaves the pipeline and the request's context is dropped
Respond ==
  /\ pc = "done"
  /\ pc' = "idle"
  /\ req' = NoRequest
  /\ ctx' = NoCtx
  /\ res' = NoResponse
  /\ inAuthTry' = FALSE
  /\ log' = <<>>
  /\ hist' = NoHist
  /\ UNCHANGED <<store, clock, thrown, walk, peer>>

----------------------------------------------------------------------------
Next ==
  \/ Receive
  \/ AuthPublic
  \/ AuthMissingToken
  \/ AuthVerified
  \/ AuthInvalidToken
  \/ AuthVerificationError
  \/ ValidateBadJson
  \/ ValidateFailed
  \/ ValidateOk
  \/ ValidateQueryFailed
  \/ ValidateQueryOk
  \/ HandleInvalidId
  \/ HandleStoreError
  \/ HandlerThrows
  \/ HandleCreate
  \/ HandleList
  \/ HandleListLookupFailed
  \/ HandleGet
  \/ HandleUpdate
  \/ HandleDelete
  \/ HandleHealth
  \/ HandleProtected
  \/ HandleAuthLogin
  \/ HandleThrow
  \/ NotFound
  \/ AuthCatch
  \/ AuthReturn
  \/ HeadersApply
  \/ HeadersSkipped
  \/ ErrorsCatch
  \/ ErrorsReturn
  \/ Respond

Spec == Init /\ [][Next]_vars

\* JSON bodies of the requests whose progress is followed: one the schemas
\* accept, and ones they reject
LiveBodies ==
  {b \in Bodies : b.json /\ b.user_id = Absent /\ b.title \in {"t1", ""}}

LiveValidateFailed == ValidateFailedOn(LiveBodies)

LiveValidateOk == ValidateOkOn(LiveBodies)

\* The steps the runtime takes for a request it has received: each stage is
\* an async function whose awaited call (the next stage, the identity
\* provider, the store) has returned or thrown, so its continuation is
\* queued and run.
Proceed ==
  \/ AuthPublic
  \/ AuthMissingToken
  \/ AuthVerified
  \/ AuthInvalidToken
  \/ AuthVerificationError
  \/ ValidateBadJson
  \/ LiveValidateFailed
  \/ LiveValidateOk
  \/ ValidateQueryFailed
  \/ ValidateQueryOk
  \/ HandleInvalidId
  \/ HandleStoreError
  \/ HandlerThrows
  \/ HandleCreate
  \/ HandleList
  \/ HandleListLookupFailed
  \/ HandleGet
  \/ HandleUpdate
  \/ HandleDelete
  \/ HandleHealth
  \/ HandleProtected
  \/ HandleAuthLogin
  \/ HandleThrow
  \/ NotFound
  \/ AuthCatch
  \/ AuthReturn
  \/ HeadersApply
  \/ HeadersSkipped
  \/ ErrorsCatch
  \/ ErrorsReturn

LiveNext ==
  \/ Receive
  \/ Proceed
  \/ Respond

\* The pipeline when every awaited call settles
LiveSpec == Init /\ [][LiveNext]_vars /\ WF_vars(Proceed)

----------------------------------------------------------------------------
(* BookmarkService behind the pipeline: verified callers, validated input *)

\* The bearer credential the identity provider issued to the user
TokenOf(u) == IF u = "alice" THEN <<"a">> ELSE <<"b">>

\* Validated create bodies (CreateBookmark)
CreateInputs ==
  {[url |-> GoodUrl, title |-> "t1", description |-> Absent,
    tags |-> AbsentTags],
   [url |-> GoodUrl, title |-> "t1", description |-> "",
    tags |-> <<"y", "x">>]}

\* Validated update bodies (UpdateBookmark)
UpdateInputs ==
  {[url |-> Absent, title |-> "t2", description |-> Absent,
    tags |-> AbsentTags],
   [url |-> "https://b", title |-> Absent, description |-> "d1",
    tags |-> <<"x">>]}

\* Validated list queries (BookmarkQuery)
ListInputs ==
  {[tag |-> Absent, cursor |-> NoCursor, limit |-> NoLimit],
   [tag |-> "x", cursor |-> NoCursor, limit |-> 1]}

\* The request of verified caller u has passed authMiddleware and the
\* route's validation stage: the state in which the pipeline hands it on.
Admit(u, method, path, body, query, at) ==
  /\ pc = "idle"
  /\ req' = [method |-> method, path |-> path,
             header |-> Sent(BearerPrefix \o TokenOf(u))]
  /\ ctx' = [userId |-> u, validatedBody |-> body, validatedQuery |-> query]
  /\ hist' = [NoHist EXCEPT !.forwarded = TRUE, !.providerCalls = 1,
                            !.verified = u,
                            !.validated = (body # NoBody \/ query # NoBody)]
  /\ log' = <<AuthEvent("auth.verified", u, "success",
                        [path |-> path, method |-> method])>>
  /\ inAuthTry' = TRUE
  /\ pc' = at
  /\ UNCHANGED <<store, clock, res, thrown, peer>>

\* ... while no client is following cursors
Admitted(u, method, path, body, query, at) ==
  Admit(u, method, path, body, query, at) /\ walk' = walk

InvokeCreate ==
  /\ Len(store) < MaxRows
  /\ \E u \in Users, data \in CreateInputs :
       Admitted(u, "POST", PathBookmarks, data, NoBody, "handler")

InvokeList ==
  \E u \in Users, query \in ListInputs :
    Admitted(u, "GET", PathBookmarks, NoBody, query, "handler")

InvokeGet ==
  \E u \in Users, i \in 1..MaxRows :
    Admitted(u, "GET", ByIdPath(<<IdChars[i]>>), NoBody, NoBody, "route")

InvokeUpdate ==
  \E u \in Users, i \in 1..MaxRows, data \in UpdateInputs :
    Admitted(u, "PUT", ByIdPath(<<IdChars[i]>>), data, NoBody, "handler")

InvokeDelete ==
  \E u \in Users, i \in 1..MaxRows :
    Admitted(u, "DELETE", ByIdPath(<<IdChars[i]>>), NoBody, NoBody, "route")

\* The handler of bookmarksTags is entered directly: the router does not
\* select it for any path.
InvokeTags ==
  \E u \in Users : Admitted(u, "GET", PathTags, NoBody, NoBody, "tags")

\* POST / while the table has room for another row
ServiceCreate == Len(store) < MaxRows /\ CreateStep

\* GET /api/bookmarks/tags handler: service.getUserTags() -> 200 { data }
HandleTags ==
  /\ pc = "tags"
  /\ res' = Json(200, [data |-> UserTags(ctx.userId)])
  /\ log' = Append(log, Event("bookmark.tags.listed", ctx.userId, "success", 0))
  /\ hist' = [hist EXCEPT !.handlerRan = TRUE, !.storeCalls = @ + 1,
                          !.selected = TagsFilter]
  /\ pc' = UnwindFrom(req)
  /\ UNCHANGED <<store, clock, req, ctx, thrown, inAuthTry, walk, peer>>

\* The handler has returned its response.
Returned == pc = "unwind_auth" /\ thrown = NoThrow

\* the response goes back up the chain to the client
Return ==
  /\ Returned
  /\ pc' = "idle"
  /\ req' = NoRequest
  /\ ctx' = NoCtx
  /\ res' = NoResponse
  /\ inAuthTry' = FALSE
  /\ log' = <<>>
  /\ hist' = NoHist
  /\ UNCHANGED <<store, clock, thrown, walk, peer>>

ServiceNext ==
  \/ InvokeCreate
  \/ InvokeList
  \/ InvokeGet
  \/ InvokeUpdate
  \/ InvokeDelete
  \/ InvokeTags
  \/ ServiceCreate
  \/ HandleList
  \/ HandleGet
  \/ HandleUpdate
  \/ HandleDelete
  \/ HandleTags
  \/ HandleStoreError
  \/ Return

ServiceSpec == Init /\ [][ServiceNext]_vars

----------------------------------------------------------------------------
(* A client pages through GET /api/bookmarks; nothing writes meanwhile *)

\* Rows as createBookmark and deleteBookmark leave them
ListedRows ==
  {[NewRow(u, [url |-> GoodUrl, title |-> "t1", description |-> Absent,
               tags |-> AbsentTags], 1, t)
      EXCEPT !.deleted_at = d] :
     u \in Users, t \in 1..MaxStamp, d \in {NULL, MaxStamp + 1}}

\* Tables of up to MaxListed rows: ids in order of insertion, created_at
\* (DEFAULT NOW()) never decreasing with it, equal for rows inserted at
\* the same instant
ListedStores ==
  UNION {{[i \in 1..n |-> [f[i] EXCEPT !.id = i]] :
            f \in {g \in [1..n -> ListedRows] :
                     \A i \in 1..n, j \in 1..n :
                        i < j => g[i].created_at <= g[j].created_at}} :
         n \in 0..MaxListed}

ListInit ==
  /\ store \in ListedStores
  /\ clock = MaxStamp + 2
  /\ pc = "idle"
  /\ req = NoRequest
  /\ ctx = NoCtx
  /\ res = NoResponse
  /\ thrown = NoThrow
  /\ inAuthTry = FALSE
  /\ log = <<>>
  /\ hist = NoHist
  /\ walk = NoWalk
  /\ peer = NoPeer

PageSizes == {1, 2}

\* GET /api/bookmarks?limit=L without a cursor
StartWalk ==
  /\ walk.state = "none"
  /\ \E u \in Users, L \in PageSizes :
       /\ Admit(u, "GET", PathBookmarks, NoBody,
                [tag |-> Absent, cursor |-> NoCursor, limit |-> L], "handler")
       /\ walk' = [state |-> "walking", caller |-> u, limit |-> L,
                   cursor |-> NoCursor, pages |-> <<>>]

\* the client receives { data, meta } and keeps the page
ReceivePage ==
  /\ Returned
  /\ walk.state = "walking"
  /\ res.status = 200
  /\ walk' = [walk EXCEPT
       !.pages = Append(@, res.body),
       !.cursor = res.body.meta.cursor,
       !.state = IF res.body.meta.cursor # NoCursor THEN "more" ELSE "finished"]
  /\ pc' = "idle"
  /\ req' = NoRequest
  /\ ctx' = NoCtx
  /\ res' = NoResponse
  /\ inAuthTry' = FALSE
  /\ log' = <<>>
  /\ hist' = NoHist
  /\ UNCHANGED <<store, clock, thrown, peer>>

\* GET /api/bookmarks?limit=L&cursor=<meta.cursor of the last page>
FollowCursor ==
  /\ walk.state = "more"
  /\ Admit(walk.caller, "GET", PathBookmarks, NoBody,
           [tag |-> Absent, cursor |-> walk.cursor, limit |-> walk.limit],
           "handler")
  /\ walk' = [walk EXCEPT !.state = "walking"]

\* GET /api/bookmarks?cursor=c, with or without limit=L, with a cursor of
\* the client's own choosing: any well-formed identifier
ProbeCursor ==
  /\ walk.state = "none"
  /\ \E u \in Users, L \in PageSizes \cup {NoLimit}, c \in 1..(MaxListed + 1) :
       /\ Admit(u, "GET", PathBookmarks, NoBody,
                [tag |-> Absent, cursor |-> c, limit |-> L], "handler")
       /\ walk' = [NoWalk EXCEPT !.state = "probe", !.caller = u,
                                 !.limit = L, !.cursor = c]

\* the client receives the page of its probe
ReceiveProbe ==
  /\ Returned
  /\ walk.state = "probe"
  /\ walk' = NoWalk
  /\ pc' = "idle"
  /\ req' = NoRequest
  /\ ctx' = NoCtx
  /\ res' = NoResponse
  /\ inAuthTry' = FALSE
  /\ log' = <<>>
  /\ hist' = NoHist
  /\ UNCHANGED <<store, clock, thrown, peer>>

ListNext ==
  \/ StartWalk
  \/ HandleList
  \/ ReceivePage
  \/ FollowCursor
  \/ ProbeCursor
  \/ ReceiveProbe

ListSpec == ListInit /\ [][ListNext]_vars

----------------------------------------------------------------------------
(* A client pages through GET /api/bookmarks while other requests write *)

\* DELETE /api/bookmarks/:id by any caller, between two page requests
WriterDelete ==
  /\ walk.state = "more"
  /\ \E u \in Users, i \in 1..MaxListed :
       Admitted(u, "DELETE", ByIdPath(<<IdChars[i]>>), NoBody, NoBody, "route")

\* POST /api/bookmarks by any caller, between two page requests
WriterCreate ==
  /\ walk.state = "more"
  /\ Len(store) < MaxListed
  /\ \E u \in Users :
       Admitted(u, "POST", PathBookmarks,
                [url |-> GoodUrl, title |-> "t1", description |-> Absent,
                 tags |-> AbsentTags], NoBody, "handler")

\* POST / while the table has room for another row
WriterCreated == Len(store) < MaxListed /\ CreateStep

\* the writer's response goes back to it
WriterReturn == walk.state = "more" /\ Return

WalkNext ==
  \/ StartWalk
  \/ HandleList
  \/ ReceivePage
  \/ FollowCursor
  \/ WriterDelete
  \/ HandleDelete
  \/ WriterCreate
  \/ WriterCreated
  \/ WriterReturn

WalkSpec == ListInit /\ [][WalkNext]_vars

----------------------------------------------------------------------------
(* Two update requests for one record in flight at the same time *)

\* Validated update bodies of the second request: the first two supply
\* disjoint fields, the third shares title with the first of them and
\* description with the second
PeerInputs ==
  UpdateInputs
    \cup {[url |-> Absent, title |-> "t1", description |-> "d2",
           tags |-> AbsentTags]}

\* While one PUT /:id waits to call the store, a second PUT for the same
\* id, by any caller, has passed authMiddleware and validateBody.
PeerArrive ==
  /\ peer.state = "none"
  /\ AtHandler("update")
  /\ ValidId(Param(req))
  /\ \E u \in Users, data \in PeerInputs :
       peer' = [NoPeer EXCEPT !.state = "admitted", !.caller = u,
                              !.id = IdOf(Param(req)), !.data = data]
  /\ UNCHANGED <<store, clock, pc, req, ctx, res, thrown, inAuthTry, log,
                 hist, walk>>

\* updateBookmark of the second request: its one store call. after records
\* whether the first request's store call has been made by then. The audit
\* events of the second request are not kept.
PeerUpdate ==
  /\ peer.state = "admitted"
  /\ LET rows == UpdateMatch(peer.caller, peer.id) IN
       IF rows = {}
       THEN /\ store' = store
            /\ peer' = [peer EXCEPT !.state = "done", !.status = 404]
       ELSE LET row == ApplyUpdate(store[peer.id], peer.data) IN
            IF RlsUpdateCheck(peer.caller, row)
            THEN /\ store' = [store EXCEPT ![peer.id] = row]
                 /\ peer' = [peer EXCEPT !.state = "done", !.status = 200,
                                         !.after = hist.handlerRan]
            ELSE /\ store' = store
                 /\ peer' = [peer EXCEPT !.state = "done", !.status = 500]
  /\ UNCHANGED <<clock, pc, req, ctx, res, thrown, inAuthTry, log, hist, walk>>

\* both responses go back to their clients once no store call is pending
PairReturn ==
  /\ Returned
  /\ peer.state # "admitted"
  /\ pc' = "idle"
  /\ req' = NoRequest
  /\ ctx' = NoCtx
  /\ res' = NoResponse
  /\ inAuthTry' = FALSE
  /\ log' = <<>>
  /\ hist' = NoHist
  /\ peer' = NoPeer
  /\ UNCHANGED <<store, clock, thrown, walk>>

PairNext ==
  \/ InvokeCreate
  \/ ServiceCreate
  \/ InvokeUpdate
  \/ HandleUpdate
  \/ PeerArrive
  \/ PeerUpdate
  \/ PairReturn

PairSpec == Init /\ [][PairNext]_vars

----------------------------------------------------------------------------
(* The validation stage at the bounds of the schemas *)

\* JSON bodies whose fields lie at and around each bound of the schemas
BoundaryBodies ==
  [json : {TRUE},
   url : {Absent, GoodUrl, "ftp://a", "not a url",
          "https://url2048", "https://url2049"},
   title : {Absent, "", "t1", "title500", "title501"},
   description : {Absent, "", "description2000", "description2001"},
   tags : {AbsentTags, <<>>, <<"x">>, <<"">>, <<"x", "">>, <<"tag50">>,
           <<"tag51">>, TagsOfCount(MaxTagCount),
           TagsOfCount(MaxTagCount + 1)},
   user_id : {Absent}]

\* A verified caller's POST / or PUT /:id reaches validateBody.
ArriveAtValidation ==
  \E u \in Users, r \in {[method |-> "POST", path |-> PathBookmarks],
                          [method |-> "PUT", path |-> ByIdPath(<<IdChars[1]>>)]} :
    /\ Admitted(u, r.method, r.path, NoBody, NoBody, "route")

ValidateBoundaryFailed == ValidateFailedOn(BoundaryBodies)

ValidateBoundaryOk == ValidateOkOn(BoundaryBodies)

\* the validation stage has answered or handed on; the request is dropped
Dismiss ==
  /\ hist.validated
  /\ pc \in {"handler", "unwind_auth"}
  /\ pc' = "idle"
  /\ req' = NoRequest
  /\ ctx' = NoCtx
  /\ res' = NoResponse
  /\ inAuthTry' = FALSE
  /\ log' = <<>>
  /\ hist' = NoHist
  /\ UNCHANGED <<store, clock, thrown, walk, peer>>

ValidationNext ==
  \/ ArriveAtValidation
  \/ ValidateBoundaryFailed
  \/ ValidateBoundaryOk
  \/ Dismiss

ValidationSpec == Init /\ [][ValidationNext]_vars

----------------------------------------------------------------------------
(* Properties *)

\* The request in flight is to a path under /api/ that the public prefix
\* does not match.
Protected == UnderApi(req.path) /\ ~StartsWith(req.path, PUBLIC_PATH_PREFIX)

\* A stage after authMiddleware has run for the request in flight.
Downstream ==
  hist.forwarded \/ hist.validated \/ hist.handlerRan \/ hist.storeCalls > 0

\* The stage that answers has answered.
Answered == pc \notin {"idle", "auth", "route", "handler"}

\* C1: on a non-public /api/ path no stage after the Authenticator runs
\* unless the identity provider was called once and returned a user, and the
\* userId in the context is that user, the one the credential was issued to.
C1_VerifiedBeforeHandler ==
  (Protected /\ Downstream) =>
     /\ hist.providerCalls = 1
     /\ hist.verified \in Users
     /\ ctx.userId = hist.verified
     /\ req.header.present
     /\ ctx.userId = TokenUser(Slice(HeaderValue(req.header.value), 7))

C1_Witness ==
  /\ pc = "done"
  /\ Protected
  /\ Route(req) = "get"
  /\ hist.storeCalls = 1
  /\ res.status = 200
  /\ ctx.userId = "alice"

\* The header the client sent is missing, names another scheme, or is the
\* Bearer scheme with an empty credential.
NoCredential ==
  \/ ~req.header.present
  \/ ~StartsWith(req.header.value, BearerPrefix)
  \/ req.header.value = BearerPrefix

C3_ProviderFailureIs401 ==
  (hist.providerCalls > 0 /\ hist.verified = Undefined) =>
     /\ res.status = 401
     /\ ctx.userId = Undefined
     /\ thrown = NoThrow
     /\ ~Downstream

C3_Witness ==
  /\ pc = "done"
  /\ hist.providerCalls = 1
  /\ TokenUser(Token(AuthHeader(req))) = "alice"
  /\ res.status = 401
  /\ res.body = [error |-> "Authentication failed"]

\* The request path is under /api/auth/.
UnderAuthSubtree == StartsWith(req.path, PUBLIC_PATH_PREFIX \o <<"/">>)

\* C4: only paths under /api/auth/ bypass the Authenticator: any other path
\* under /api/ is forwarded only with a verified identity and is answered
\* 401 without one, and paths under /api/auth/ are forwarded without identity.
C4_OnlyAuthSubtreeBypasses ==
  /\ (UnderApi(req.path) /\ ~UnderAuthSubtree /\ hist.forwarded)
        => hist.verified \in Users
  /\ (UnderApi(req.path) /\ ~UnderAuthSubtree /\ pc = "done"
        /\ hist.verified = Undefined) => res.status = 401
  /\ (UnderAuthSubtree /\ Answered)
        => (hist.forwarded /\ ctx.userId = Undefined)

\* C5: every response that leaves the pipeline carries the six security
\* headers, whichever stage produced it.
C5_SecurityHeadersOnEveryResponse ==
  pc = "done" => SecurityHeaders \subseteq res.headers

\* The client sent a Bearer Authorization header with a credential in it.
CarriesBearer ==
  /\ req.header.present
  /\ StartsWith(req.header.value, BearerPrefix)
  /\ req.header.value # BearerPrefix

\* C6: the cache-disabling headers are on the response if and only if the
\* request carried a bearer credential.
C6_CacheHeadersIffBearer ==
  pc = "done" =>
     /\ CarriesBearer => CacheHeaders \subseteq res.headers
     /\ ~CarriesBearer => CacheHeaders \cap res.headers = {}

\* C7: whenever the Error Boundary catches a thrown value the response is
\* 500 with the fixed body, whatever was thrown.
C7_GenericErrorResponse ==
  (pc = "done" /\ hist.caughtBy = "errors") =>
     /\ res.status = 500
     /\ res.body = [error |-> "An internal error occurred"]

C7_Witness ==
  /\ pc = "done"
  /\ hist.caughtBy = "errors"
  /\ hist.raised = ErrorOf(SecretMessage)
  /\ res.status = 500

\* C8: a value thrown by a stage downstream of the Error Boundary is caught
\* by the Error Boundary and by no other stage, and the answer is the
\* generic 500.
C8_ThrownReachesErrorBoundary ==
  (pc = "done" /\ hist.raised # NoThrow) =>
     /\ hist.caughtBy = "errors"
     /\ res.status = 500
     /\ res.body = [error |-> "An internal error occurred"]

\* C9: get, update and delete of an identifier that is absent, owned by
\* another caller or soft-deleted are all answered 404 with the same body.
C9_UniformNotFound ==
  (pc = "done" /\ Route(req) \in {"get", "update", "delete"}
     /\ hist.target \in {"absent", "foreign", "deleted"}) =>
     /\ res.status = 404
     /\ res.body = NotFoundBody

\* C10: delete answers 204 only when the identifier named an active row of
\* the caller and this call set its deletion marker.
C10_DeleteSuccessOnlyWhenMarked ==
  (pc = "done" /\ Route(req) = "delete" /\ res.status = 204) =>
     /\ hist.target = "active"
     /\ hist.marked

\* C13: a record's owner is the verified identity of the caller whose create
\* request produced it, whatever owner field the request body supplied: the
\* validated body carries no owner field, a new record gets the identifier
\* after the last one, and no step changes the owner or the identifier of a
\* record that exists.
C13_OwnerBoundAtCreate ==
  [][/\ Len(store') >= Len(store)
     /\ \A i \in DOMAIN store :
          /\ store'[i].user_id = store[i].user_id
          /\ store'[i].id = store[i].id
     /\ \A i \in DOMAIN store' \ DOMAIN store :
          /\ hist.verified \in Users
          /\ store'[i].user_id = hist.verified
          /\ store'[i].id = i
     /\ ctx'.validatedBody # NoBody =>
          "user_id" \notin DOMAIN ctx'.validatedBody]_vars

C13_Witness ==
  /\ pc = "done"
  /\ Route(req) = "create"
  /\ res.status = 201
  /\ hist.verified = "alice"
  /\ hist.body.user_id = "bob"
  /\ store[Len(store)].user_id = "alice"

\* C14: the predicates a store call itself carries select only rows owned by
\* the caller, so that the call returns or changes no other caller's row
\* even when the store applies no policy of its own.
C14_QueriesScopedToCaller ==
  \A i \in hist.selected : store[i].user_id = ctx.userId

\* C18: a verified caller's GET /api/bookmarks/tags is answered 200 with the
\* distinct tags of the caller's active records in ascending order: none
\* twice, none from a soft-deleted or another caller's record, none missing.
C18_TagListingSortedDistinct ==
  (pc = "done" /\ req.method = "GET" /\ req.path = PathTags
     /\ hist.verified \in Users) =>
     /\ res.status = 200
     /\ res.body = [data |-> UserTags(hist.verified)]

\* C19: once a validation stage has rejected the request (unparsable JSON,
\* or a body or query that fails its schema) the answer is 400, no route
\* handler is invoked, no store call is made and no step changes the store.
C19_RejectionShortCircuits ==
  [][hist'.rejected =>
       /\ ~hist'.handlerRan
       /\ hist'.storeCalls = 0
       /\ store' = store
       /\ res'.status = 400
       /\ pc' \notin {"handler", "route"}]_vars

C19_Witness ==
  /\ pc = "done"
  /\ Route(req) = "create"
  /\ hist.rejected
  /\ res.status = 400
  /\ res.body = [error |-> "Validation failed", details |-> {"tags"}]
  /\ ~hist.handlerRan
  /\ hist.storeCalls = 0

\* The request in flight is to a route of /api/bookmarks.
ResourceRoute == Route(req) \in {"create", "list", "get", "update", "delete"}

ValidationEvents == {"validation.body.failed", "validation.query.failed"}

\* C20: on a resource route the Authenticator decides before the Validation
\* Stage and the Validation Stage before the service: validation, handler
\* and store run only for a verified identity, a handler behind a validation
\* stage runs only after it, and a request without a valid credential is
\* answered 401 with the security headers, with no validation, no validation
\* event and no store call.
C20_AuthBeforeValidationBeforeService ==
  ResourceRoute =>
     /\ (hist.validated \/ hist.handlerRan \/ hist.storeCalls > 0) =>
          (hist.providerCalls = 1 /\ hist.verified \in Users)
     /\ (hist.handlerRan /\ Route(req) \in Validated \cup QueryValidated) =>
          hist.validated
     /\ hist.storeCalls > 0 => hist.handlerRan
     /\ (Answered /\ hist.verified = Undefined) =>
          /\ res.status = 401
          /\ ~hist.validated
          /\ hist.storeCalls = 0
          /\ \A k \in 1..Len(log) : log[k].event \notin ValidationEvents
          /\ pc = "done" => SecurityHeaders \subseteq res.headers

C20_Witness ==
  /\ pc = "done"
  /\ Route(req) = "create"
  /\ req.header = Sent(BearerPrefix \o <<"z">>)
  /\ res.status = 401
  /\ ~hist.validated
  /\ hist.storeCalls = 0

C16_CreatedRecordEqualsInput ==
  (hist.handlerRan /\ Route(req) = "create" /\ res.status = 201) =>
     LET r == res.body.data
         d == ctx.validatedBody
     IN /\ r.url = d.url
        /\ r.title = d.title
        /\ r.description =
             (IF d.description = Absent THEN NullText ELSE d.description)
        /\ r.tags = (IF d.tags = AbsentTags THEN NullTags ELSE d.tags)
        /\ r.deleted_at = NULL
        /\ \A i \in DOMAIN store : store[i].id = r.id => store[i] = r
        /\ Cardinality({i \in DOMAIN store : store[i].id = r.id}) = 1

HttpScheme(s) ==
  s \in {"https://a", "https://b", "http://a", "https://url2048",
         "https://url2049"}

\* The fields of a body that violate a bound: title empty or longer than
\* 500, url longer than 2048 or not an http/https URL, description longer
\* than 2000, more than 20 tags, a tag longer than 50 or empty.
BoundViolations(b) ==
  {f \in {"title"} :
     b.title # Absent /\ (CharLength(b.title) = 0 \/ CharLength(b.title) > 500)}
    \cup {f \in {"url"} :
            b.url # Absent /\ (CharLength(b.url) > 2048 \/ ~HttpScheme(b.url))}
    \cup {f \in {"description"} :
            b.description # Absent /\ CharLength(b.description) > 2000}
    \cup {f \in {"tags"} :
            /\ b.tags # AbsentTags
            /\ \/ Len(b.tags) > 20
               \/ \E k \in 1..Len(b.tags) :
                    CharLength(b.tags[k]) > 50 \/ CharLength(b.tags[k]) = 0}

\* C15: a create or update body that violates a bound is rejected with 400
\* and details that have a key for each offending field, on create and on
\* update alike.
C15_BoundViolationsRejected ==
  (Route(req) \in Validated /\ hist.validated /\ hist.body # NoBody
     /\ BoundViolations(hist.body) # {}) =>
     /\ hist.rejected
     /\ res.status = 400
     /\ BoundViolations(hist.body) \subseteq res.body.details

\* The records of the pages in the order received
RECURSIVE Visited(_)
Visited(pages) ==
  IF pages = <<>> THEN <<>> ELSE Head(pages).data \o Visited(Tail(pages))

\* The caller's active records
ActiveOf(u) ==
  {i \in DOMAIN store : store[i].user_id = u /\ store[i].deleted_at = NULL}

\* C12: a client that starts without a cursor and passes each returned
\* cursor on, with nothing written meanwhile, receives ceil(N/L) pages (one
\* empty page when N = 0) of at most L records, which together hold each of
\* the caller's N active records exactly once, newest first, also when
\* records share a creation timestamp; only the last page has hasMore false
\* and no cursor.
C12_PagesPartitionActiveRecords ==
  walk.state = "finished" =>
     LET N == Cardinality(ActiveOf(walk.caller))
         L == walk.limit
         v == Visited(walk.pages)
     IN /\ Len(walk.pages) = (IF N = 0 THEN 1 ELSE (N + L - 1) \div L)
        /\ \A k \in 1..Len(walk.pages) :
             /\ Len(walk.pages[k].data) <= L
             /\ walk.pages[k].meta.hasMore <=> k < Len(walk.pages)
             /\ walk.pages[k].meta.cursor = NoCursor <=> k = Len(walk.pages)
        /\ {v[k].id : k \in 1..Len(v)} = ActiveOf(walk.caller)
        /\ \A j, k \in 1..Len(v) : j # k => v[j].id # v[k].id
        /\ \A j, k \in 1..Len(v) : j < k => v[j].created_at >= v[k].created_at

\* The bodies the handlers answer a failed store call with
GenericFailureBodies ==
  {[error |-> FailedMessage(r)] :
     r \in {"create", "list", "get", "update", "delete"}}

\* C21: a request during which a store call failed (other than with the
\* no-rows result) saw that failure once, and is answered 500 with a generic
\* { error } body.
C21_StoreFailureSurfacedOnce ==
  (pc = "done" /\ ResourceRoute /\ hist.storeFailed > 0) =>
     /\ hist.storeFailed = 1
     /\ res.status = 500
     /\ res.body \in GenericFailureBodies

\* The answers the same list call may get when made without a cursor
PagesWithoutCursor ==
  LET query == [ctx.validatedQuery EXCEPT !.cursor = NoCursor]
      limit == LimitOf(query)
  IN {ListResult(Fetched(q, limit), limit) :
        q \in DescOrders(ListMatch(ctx.userId, query))}

\* C22: a list call whose cursor names no record the caller can read is
\* answered 200 with the page, hasMore and cursor of the same call made
\* without a cursor.
C22_UnresolvableCursorIgnored ==
  (Returned /\ Route(req) = "list" /\ hist.handlerRan
     /\ hist.storeFailed = 0
     /\ ctx.validatedQuery.cursor # NoCursor
     /\ CursorMatch(ctx.userId, ctx.validatedQuery.cursor) = {}) =>
     /\ res.status = 200
     /\ res.body \in PagesWithoutCursor

C22_Witness ==
  /\ Returned
  /\ Route(req) = "list"
  /\ ctx.validatedQuery.cursor \in DOMAIN store
  /\ store[ctx.validatedQuery.cursor].user_id # ctx.userId
  /\ res.status = 200
  /\ Len(res.body.data) = 1
  /\ res.body.meta.hasMore

AuthEventNames ==
  {"auth.verified", "auth.missing_token", "auth.invalid_token",
   "auth.verification_error"}

\* The entries authMiddleware has logged for the request in flight
AuthEntries == {k \in 1..Len(log) : log[k].event \in AuthEventNames}

\* C23: once the Authenticator has decided on a non-public path, the log
\* holds exactly one authentication event for the request, and the event
\* records an actor, an outcome, the request's path and the request's
\* method, and nothing but path, method and an error text.
C23_OneAuditEventPerDecision ==
  (Protected /\ pc \notin {"idle", "auth"}) =>
     /\ Cardinality(AuthEntries) = 1
     /\ \A k \in AuthEntries :
          /\ log[k].actor \in Users \cup {"anonymous"}
          /\ log[k].outcome \in {"success", "failure"}
          /\ DOMAIN log[k].metadata \subseteq {"path", "method", "error"}
          /\ {"path", "method"} \subseteq DOMAIN log[k].metadata
          /\ log[k].metadata.path = req.path
          /\ log[k].metadata.method = req.method

ServiceEventNames ==
  {"bookmark.created", "bookmark.listed", "bookmark.retrieved",
   "bookmark.updated", "bookmark.deleted", "bookmark.create.failed",
   "bookmark.list.failed", "bookmark.get.failed", "bookmark.update.failed",
   "bookmark.delete.failed"}

\* The entries BookmarkService has logged for the request in flight
ServiceEntries == {k \in 1..Len(log) : log[k].event \in ServiceEventNames}

\* The record the operation in flight is about, 0 for create and list
Involved == IF Route(req) \in {"get", "update", "delete"} THEN IdOf(Param(req)) ELSE 0

\* C24: a service operation that was answered with not-found or with a
\* failure has logged a failure event for the caller and the record involved,
\* an operation answered with success that changes the store has logged a
\* success event for them, and a success event of delete is logged only
\* when the call set a deletion marker.
C24_AuditEventMatchesOutcome ==
  (pc = "done" /\ ResourceRoute /\ hist.storeCalls > 0) =>
     /\ res.status \in {404, 500} =>
          \E k \in ServiceEntries :
             /\ log[k].actor = ctx.userId
             /\ log[k].resource = Involved
             /\ log[k].outcome = "failure"
     /\ (res.status \in {200, 201, 204} /\ Route(req) \in {"create", "update", "delete"}) =>
          \E k \in ServiceEntries :
             /\ log[k].actor = ctx.userId
             /\ Route(req) # "create" => log[k].resource = Involved
             /\ log[k].outcome = "success"
     /\ \A k \in ServiceEntries :
          (log[k].event = "bookmark.deleted" /\ log[k].outcome = "success")
             => hist.marked

\* C25: a record whose deletion marker is set stays exactly as it is in
\* every step: the marker is not cleared, not replaced by a later time, and
\* no other field of the record changes.
C25_SoftDeletionIrreversible ==
  [][\A i \in DOMAIN store :
       store[i].deleted_at # NULL =>
          /\ i \in DOMAIN store'
          /\ store'[i] = store[i]]_vars

C25_Witness ==
  /\ Returned /\ Route(req) = "update" /\ hist.target = "deleted"
  /\ hist.storeCalls > 0 /\ res.status = 404

\* C26: a list call answered with a page, for page size L (20 when the
\* query has no limit, and within 1..100), asked the store for L + 1 rows,
\* returns at most L records, has hasMore true exactly when the store
\* returned more than L rows, and returns a cursor exactly when hasMore is
\* true, the cursor being the id of the last record of the page.
C26_PageComputedFromOneExtraRow ==
  (Returned /\ Route(req) = "list" /\ hist.handlerRan /\ res.status = 200) =>
     LET L == IF ctx.validatedQuery.limit = NoLimit THEN 20
              ELSE ctx.validatedQuery.limit
         page == res.body.data
         meta == res.body.meta
     IN /\ L \in 1..100
        /\ hist.asked = L + 1
        /\ hist.fetched <= L + 1
        /\ Len(page) <= L
        /\ meta.hasMore <=> hist.fetched > L
        /\ meta.cursor # NoCursor <=> meta.hasMore
        /\ meta.hasMore => meta.cursor = page[Len(page)].id

C26_Witness ==
  /\ Returned /\ Route(req) = "list" /\ res.status = 200
  /\ ctx.validatedQuery.limit = 2 /\ hist.fetched = 3
  /\ Len(res.body.data) = 2 /\ res.body.meta.hasMore
  /\ res.body.meta.cursor = res.body.data[2].id

\* C27: when every awaited call settles, a request that was received gets
\* to the point where its response leaves the pipeline; at that point there
\* is a response and no thrown value is left to escape, whatever was thrown
\* downstream.
C27_EveryRequestAnswered ==
  /\ [](pc = "done" => (res # NoResponse /\ thrown = NoThrow))
  /\ (pc # "idle") ~> (pc = "done")

C27_Witness ==
  /\ pc = "done" /\ hist.raised = StringOf("something went wrong")
  /\ hist.caughtBy = "errors" /\ thrown = NoThrow /\ res # NoResponse

\* The ids of the records of a page
IdsOf(page) == {page.data[k].id : k \in 1..Len(page.data)}

C29_ConcurrentUpdatesMerge ==
  (Returned /\ Route(req) = "update" /\ res.status = 200
     /\ peer.state = "done" /\ peer.status = 200) =>
     LET last == IF peer.after THEN peer.data ELSE ctx.validatedBody
         first == IF peer.after THEN ctx.validatedBody ELSE peer.data
         r == store[peer.id]
     IN /\ last.url # Absent => r.url = last.url
        /\ (last.url = Absent /\ first.url # Absent) => r.url = first.url
        /\ last.title # Absent => r.title = last.title
        /\ (last.title = Absent /\ first.title # Absent) => r.title = first.title
        /\ last.description # Absent => r.description = last.description
        /\ (last.description = Absent /\ first.description # Absent)
              => r.description = first.description
        /\ last.tags # AbsentTags => r.tags = last.tags
        /\ (last.tags = AbsentTags /\ first.tags # AbsentTags)
              => r.tags = first.tags

C29_Witness ==
  /\ Returned /\ Route(req) = "update" /\ res.status = 200
  /\ peer.state = "done" /\ peer.status = 200 /\ ~peer.after
  /\ ctx.validatedBody.title = "t2" /\ ctx.validatedBody.url = Absent
  /\ peer.data.url = "https://b" /\ peer.data.title = Absent
  /\ store[peer.id].title = "t2" /\ store[peer.id].url = "https://b"
  /\ store[peer.id].description = "d1" /\ store[peer.id].tags = <<"x">>

\* C30: each 'bookmark.deleted' success event in the log of a delete request
\* stands for a record of the caller whose deletion marker this request
\* changed from null to a timestamp; a delete that matched no active record
\* of the caller has no such event.
C30_DeletedEventMeansMarked ==
  \A k \in 1..Len(log) :
     (log[k].event = "bookmark.deleted" /\ log[k].outcome = "success") =>
        /\ hist.target = "active"
        /\ hist.marked
        /\ log[k].resource \in DOMAIN store
        /\ store[log[k].resource].user_id = log[k].actor
        /\ store[log[k].resource].deleted_at # NULL

====
